---- MODULE Spec2Model ----
(***************************************************************************)
(* Model of include/gpd/util/system_print_color.h: the SGR code literals,  *)
(* the MOD/RST escape macros, the eight style-composition macros, the      *)
(* seven print macros, and what a statement built from them writes to      *)
(* std::cout.  A macro is modelled as what the preprocessor makes of it: a *)
(* sequence of tokens, on which adjacent string literals are concatenated  *)
(* (translation phase 6) before the chain of operator<< runs left to right.*)
(***************************************************************************)
EXTENDS Integers, Sequences, FiniteSets, TLC

VARIABLES threads, limit, pc, cur, pend, written, outcome,
          stdout, owner, nprints, last, writable, badbit

vars == <<threads, limit, pc, cur, pend, written, outcome,
          stdout, owner, nprints, last, writable, badbit>>

(* The number of print statements a behaviour executes. *)
MaxPrints == 2

(* The same, in the behaviours that also evaluate style expressions. *)
MaxPrintsAround == 1

---------------------------------------------------------------------------
(* Characters and string literals.                                         *)

Digits == <<"0", "1", "2", "3", "4", "5", "6", "7", "8", "9">>

DigitValue(c) == CHOOSE d \in 0..9 : Digits[d + 1] = c

(* An octal escape sequence \ooo of a string literal: its value.           *)
OctalEscape(ds) == ds[1] * 64 + ds[2] * 8 + ds[3]

(* The execution-character-set value of one source character of a literal  *)
(* (translation phase 5): the escape \033, the characters '[' and 'm', the *)
(* decimal digits, and the newline std::endl inserts.                      *)
Byte(c) ==
    CASE c = "\\033" -> OctalEscape(<<0, 3, 3>>)
      [] c = "\\n"   -> 10
      [] c = "["     -> 91
      [] c = "m"     -> 109
      [] OTHER       -> 48 + DigitValue(c)

(* Tokens: a string literal (already in bytes), the operator <<, std::endl *)
(* and std::cout.                                                          *)
Lit(chars) == [k |-> "lit", s |-> [i \in 1..Len(chars) |-> Byte(chars[i])]]
OP   == [k |-> "op",   s |-> <<>>]
ENDL == [k |-> "endl", s |-> <<>>]
COUT == [k |-> "cout", s |-> <<>>]

---------------------------------------------------------------------------
(* The header's macros, as token sequences.                                *)

BOLD      == <<Lit(<<"1">>)>>
UNDRL     == <<Lit(<<"4">>)>>
FGRED     == <<Lit(<<"3", "1">>)>>
FGGREEN   == <<Lit(<<"3", "2">>)>>
FGYELLOW  == <<Lit(<<"3", "3">>)>>
FGBLUE    == <<Lit(<<"3", "4">>)>>
FGDEFAULT == <<Lit(<<"3", "9">>)>>
BGRED     == <<Lit(<<"4", "1">>)>>
BGGREEN   == <<Lit(<<"4", "2">>)>>
BGYELLOW  == <<Lit(<<"4", "3">>)>>
BGBLUE    == <<Lit(<<"4", "4">>)>>
BGDEFAULT == <<Lit(<<"4", "9">>)>>

(* MOD with the escape written in hexadecimal digits, "\x33[".              *)
MOD_HexEscape(x) ==
    <<[k |-> "lit", s |-> <<3 * 16 + 3, Byte("[")>>]>> \o x \o <<Lit(<<"m">>)>>

MOD(x) == <<Lit(<<"\\033", "[">>)>> \o x \o <<Lit(<<"m">>)>>
(* RST that restores only the foreground colour.                           *)
RST_ForegroundOnly == <<Lit(<<"\\033", "[">>)>> \o FGDEFAULT \o <<Lit(<<"m">>)>>

RST    == MOD(<<Lit(<<"0">>)>>)

(* B_MOD_RED with the colour escape before the bold escape.                *)
B_MOD_RED_ColourFirst(x) ==
    <<Lit(<<"\\033", "[">>)>> \o FGRED \o <<Lit(<<"m">>)>>
    \o <<Lit(<<"\\033", "[">>)>> \o BOLD \o <<Lit(<<"m">>)>>
    \o x
    \o <<Lit(<<"\\033", "[", "0", "m">>)>>

(* MOD_RED without the closing RST.                                        *)
MOD_RED_NoReset(x) == <<Lit(<<"\\033", "[">>)>> \o FGRED \o <<Lit(<<"m">>)>> \o x

B_MOD_RED(x)    == MOD(BOLD) \o MOD(FGRED) \o x \o RST
B_MOD_GREEN(x)  == MOD(BOLD) \o MOD(FGGREEN) \o x \o RST
B_MOD_YELLOW(x) == MOD(BOLD) \o MOD(FGYELLOW) \o x \o RST
B_MOD_BLUE(x)   == MOD(BOLD) \o MOD(FGBLUE) \o x \o RST
MOD_RED(x)      == MOD(FGRED) \o x \o RST
MOD_GREEN(x)    == MOD(FGGREEN) \o x \o RST
MOD_YELLOW(x)   == MOD(FGYELLOW) \o x \o RST
MOD_BLUE(x)     == MOD(FGBLUE) \o x \o RST

(* PRINT_GREEN pasted from PRINT_RED with the style macro left as it was.  *)
PRINT_GREEN_AsRed(x) == <<COUT, OP>> \o MOD_RED(x) \o <<OP, ENDL>>

(* PRINT pasted from a colour print with the RST left in.                  *)
PRINT_WithReset(x) == <<COUT, OP>> \o x \o RST \o <<OP, ENDL>>

PRINT_BRED(x)   == <<COUT, OP>> \o B_MOD_RED(x) \o <<OP, ENDL>>
PRINT_BGREEN(x) == <<COUT, OP>> \o B_MOD_GREEN(x) \o <<OP, ENDL>>
PRINT_BBLUE(x)  == <<COUT, OP>> \o B_MOD_BLUE(x) \o <<OP, ENDL>>
PRINT_RED(x)    == <<COUT, OP>> \o MOD_RED(x) \o <<OP, ENDL>>
PRINT_GREEN(x)  == <<COUT, OP>> \o MOD_GREEN(x) \o <<OP, ENDL>>
PRINT_BLUE(x)   == <<COUT, OP>> \o MOD_BLUE(x) \o <<OP, ENDL>>
PRINT(x)        == <<COUT, OP>> \o x \o <<OP, ENDL>>

(* The names the header defines, and the macro each name stands for.       *)
CodeNames  == {"BOLD", "UNDRL", "FGRED", "FGGREEN", "FGYELLOW", "FGBLUE",
               "FGDEFAULT", "BGRED", "BGGREEN", "BGYELLOW", "BGBLUE",
               "BGDEFAULT"}
StyleNames == {"B_MOD_RED", "B_MOD_GREEN", "B_MOD_YELLOW", "B_MOD_BLUE",
               "MOD_RED", "MOD_GREEN", "MOD_YELLOW", "MOD_BLUE"}
ColourPrintNames == {"PRINT_BRED", "PRINT_BGREEN", "PRINT_BBLUE",
                     "PRINT_RED", "PRINT_GREEN", "PRINT_BLUE"}
PrintNames == ColourPrintNames \cup {"PRINT"}

CodeMacro(n) ==
    CASE n = "BOLD"      -> BOLD
      [] n = "UNDRL"     -> UNDRL
      [] n = "FGRED"     -> FGRED
      [] n = "FGGREEN"   -> FGGREEN
      [] n = "FGYELLOW"  -> FGYELLOW
      [] n = "FGBLUE"    -> FGBLUE
      [] n = "FGDEFAULT" -> FGDEFAULT
      [] n = "BGRED"     -> BGRED
      [] n = "BGGREEN"   -> BGGREEN
      [] n = "BGYELLOW"  -> BGYELLOW
      [] n = "BGBLUE"    -> BGBLUE
      [] n = "BGDEFAULT" -> BGDEFAULT

StyleMacro(n, x) ==
    CASE n = "B_MOD_RED"    -> B_MOD_RED(x)
      [] n = "B_MOD_GREEN"  -> B_MOD_GREEN(x)
      [] n = "B_MOD_YELLOW" -> B_MOD_YELLOW(x)
      [] n = "B_MOD_BLUE"   -> B_MOD_BLUE(x)
      [] n = "MOD_RED"      -> MOD_RED(x)
      [] n = "MOD_GREEN"    -> MOD_GREEN(x)
      [] n = "MOD_YELLOW"   -> MOD_YELLOW(x)
      [] n = "MOD_BLUE"     -> MOD_BLUE(x)

PrintMacro(n, x) ==
    CASE n = "PRINT_BRED"   -> PRINT_BRED(x)
      [] n = "PRINT_BGREEN" -> PRINT_BGREEN(x)
      [] n = "PRINT_BBLUE"  -> PRINT_BBLUE(x)
      [] n = "PRINT_RED"    -> PRINT_RED(x)
      [] n = "PRINT_GREEN"  -> PRINT_GREEN(x)
      [] n = "PRINT_BLUE"   -> PRINT_BLUE(x)
      [] n = "PRINT"        -> PRINT(x)

---------------------------------------------------------------------------
(* Macro arguments.  An argument (__VA_ARGS__) is a chain of fragments     *)
(* joined by <<; a fragment is one or more adjacent parts; a part is a     *)
(* string literal or a style macro applied to a string literal.            *)

Plain(chars)     == [m |-> "", s |-> chars]
Styled(n, chars) == [m |-> n, s |-> chars]

PartTokens(p) ==
    IF p.m = "" THEN <<Lit(p.s)>> ELSE StyleMacro(p.m, <<Lit(p.s)>>)

RECURSIVE FragTokens(_)
FragTokens(f) ==
    IF f = <<>> THEN <<>> ELSE PartTokens(Head(f)) \o FragTokens(Tail(f))

(* A macro with one named parameter that keeps the first fragment only.    *)
VA_ARGS_FirstOnly(frags) == FragTokens(frags[1])

(* __VA_ARGS__: the fragments, with the << the caller wrote between them.  *)
RECURSIVE VA_ARGS(_)
VA_ARGS(frags) ==
    IF Len(frags) = 1 THEN FragTokens(frags[1])
    ELSE FragTokens(Head(frags)) \o <<OP>> \o VA_ARGS(Tail(frags))

(* Translation phase 6: adjacent string literal tokens are concatenated.   *)
RECURSIVE StringLiteralConcat(_)
StringLiteralConcat(toks) ==
    IF Len(toks) < 2 THEN toks
    ELSE IF toks[1].k = "lit" /\ toks[2].k = "lit"
         THEN StringLiteralConcat(
                  <<[k |-> "lit", s |-> toks[1].s \o toks[2].s]>>
                  \o SubSeq(toks, 3, Len(toks)))
         ELSE <<toks[1]>> \o StringLiteralConcat(Tail(toks))

IsOperand(t) == t.k \in {"lit", "endl"}

(* The right-hand operands of the chain std::cout << e1 << e2 << ..., in   *)
(* the order operator<< is applied to them.                                *)
Insertions(stmt) == SelectSeq(StringLiteralConcat(stmt), IsOperand)

(* The value of an expression made of adjacent string literals only.       *)
ExprValue(toks) == StringLiteralConcat(toks)[1].s

(* What one operator<< hands to the stream buffer: the characters of a     *)
(* string literal, or for std::endl the newline (followed by a flush).     *)
InsertedBytes(t) == IF t.k = "endl" THEN <<Byte("\\n")>> ELSE t.s

(* The arguments the model's callers pass, after the header's example      *)
(* main: one literal, and a chain of two literals; for compositions, also  *)
(* a literal that embeds another styled text.                              *)
ArgOne    == << <<Plain(<<"1", "2", "3">>)>> >>
ArgChain  == << <<Plain(<<"7", "8", "9">>)>>, <<Plain(<<"2", "5", "8">>)>> >>
ArgNested == << <<Plain(<<"4">>), Styled("MOD_BLUE", <<"5">>), Plain(<<"6">>)>> >>
ArgNestedBold == << <<Plain(<<"4">>), Styled("B_MOD_GREEN", <<"5">>), Plain(<<"6">>)>> >>

PrintArgs   == {ArgOne, ArgChain}
ComposeArgs == {ArgOne, ArgNested, ArgNestedBold}

(* Attribute sequences a caller juxtaposes by hand with MOD and RST.       *)
AttrSeqs == {<<>>, <<"UNDRL">>, <<"BOLD", "BGBLUE">>, <<"FGDEFAULT", "BGDEFAULT">>}

RECURSIVE ModSeq(_)
ModSeq(as) ==
    IF as = <<>> THEN <<>> ELSE MOD(CodeMacro(Head(as))) \o ModSeq(Tail(as))

---------------------------------------------------------------------------
(* The terminal that reads standard output.  It gives the codes the        *)
(* meaning the header's names give them: 1 bold, 4 underline, 31..34 and   *)
(* 39 the foreground, 41..44 and 49 the background, 0 (RST) everything     *)
(* back to the default rendering.                                          *)

DefaultAttrs == [bold |-> FALSE, undrl |-> FALSE, fg |-> "FGDEFAULT", bg |-> "BGDEFAULT"]

CodeBytes(n) == CodeMacro(n)[1].s

SGR(attrs, code) ==
    CASE code = <<Byte("0")>>       -> DefaultAttrs
      [] code = CodeBytes("BOLD")   -> [attrs EXCEPT !.bold = TRUE]
      [] code = CodeBytes("UNDRL")  -> [attrs EXCEPT !.undrl = TRUE]
      [] \E n \in {"FGRED", "FGGREEN", "FGYELLOW", "FGBLUE", "FGDEFAULT"} :
             code = CodeBytes(n)
           -> [attrs EXCEPT !.fg =
                  CHOOSE n \in {"FGRED", "FGGREEN", "FGYELLOW", "FGBLUE", "FGDEFAULT"} :
                      code = CodeBytes(n)]
      [] \E n \in {"BGRED", "BGGREEN", "BGYELLOW", "BGBLUE", "BGDEFAULT"} :
             code = CodeBytes(n)
           -> [attrs EXCEPT !.bg =
                  CHOOSE n \in {"BGRED", "BGGREEN", "BGYELLOW", "BGBLUE", "BGDEFAULT"} :
                      code = CodeBytes(n)]
      [] OTHER -> attrs

IsDigitByte(b) == b >= Byte("0") /\ b <= Byte("9")

(* The index of the 'm' that ends the escape sequence starting at i (an    *)
(* ESC, a '[', digits, an 'm'), or 0 when no escape sequence starts at i.  *)
EscapeEnd(bytes, i) ==
    IF /\ i + 2 <= Len(bytes)
       /\ bytes[i] = Byte("\\033")
       /\ bytes[i + 1] = Byte("[")
       /\ \E j \in (i + 2)..Len(bytes) :
             /\ bytes[j] = Byte("m")
             /\ \A h \in (i + 2)..(j - 1) : IsDigitByte(bytes[h])
    THEN CHOOSE j \in (i + 2)..Len(bytes) :
             /\ bytes[j] = Byte("m")
             /\ \A h \in (i + 2)..(j - 1) : IsDigitByte(bytes[h])
    ELSE 0

(* The terminal after reading bytes[i..]: its attributes, the cells it     *)
(* drew (each character with the attributes it was drawn in), and the      *)
(* codes of the escape sequences it obeyed.                                *)
RECURSIVE Scan(_, _, _)
Scan(bytes, i, t) ==
    IF i > Len(bytes) THEN t
    ELSE LET j == EscapeEnd(bytes, i) IN
         IF j # 0
         THEN LET code == SubSeq(bytes, i + 2, j - 1) IN
              Scan(bytes, j + 1,
                   [t EXCEPT !.attrs = SGR(t.attrs, code),
                             !.codes = Append(t.codes, code)])
         ELSE Scan(bytes, i + 1,
                   [t EXCEPT !.cells = Append(t.cells,
                                 [ch |-> bytes[i], attrs |-> t.attrs])])

Terminal(bytes) ==
    Scan(bytes, 1, [attrs |-> DefaultAttrs, cells |-> <<>>, codes |-> <<>>])

---------------------------------------------------------------------------
(* The program: threads that execute print statements and evaluate style   *)
(* expressions, and the stream std::cout they share.                       *)

NoCall == [macro |-> "", args |-> <<>>, id |-> 0]
NoEval == [kind |-> "none", name |-> "", attrs |-> <<>>, args |-> <<>>, val |-> <<>>]

(* std::cout.exceptions(): the header never sets it, so it is the default  *)
(* goodbit, under which a failed insertion throws nothing.                 *)
CoutExceptions == {}

InitWith(T, n) ==
    /\ threads = T
    /\ limit = n
    /\ pc = [t \in T |-> "idle"]
    /\ cur = [t \in T |-> NoCall]
    /\ pend = [t \in T |-> <<>>]
    /\ written = [t \in T |-> <<>>]
    /\ outcome = [t \in T |-> "none"]
    /\ stdout = <<>>
    /\ owner = <<>>
    /\ nprints = 0
    /\ last = NoEval
    /\ writable = TRUE
    /\ badbit = FALSE

Init == InitWith({1}, MaxPrints)

EvalInit == InitWith({1}, MaxPrintsAround)

ConcInit == InitWith({1, 2}, MaxPrints)

Between(t) == pc[t] \in {"idle", "done"}

(* A print macro is invoked: the statement { std::cout << ... << std::endl; } *)
(* is entered with its operands still to insert.                           *)
Call(t, n, x) ==
    /\ Between(t)
    /\ nprints < limit
    /\ nprints' = nprints + 1
    /\ pc' = [pc EXCEPT ![t] = "printing"]
    /\ cur' = [cur EXCEPT ![t] = [macro |-> n, args |-> x, id |-> nprints + 1]]
    /\ pend' = [pend EXCEPT ![t] = Insertions(PrintMacro(n, VA_ARGS(x)))]
    /\ written' = [written EXCEPT ![t] = <<>>]
    /\ outcome' = [outcome EXCEPT ![t] = "running"]
    /\ UNCHANGED <<threads, limit, stdout, owner, last, writable, badbit>>

(* One operator<< of the statement.  On a stream that is not good nothing  *)
(* is inserted; a failing write sets badbit, and throws only if the        *)
(* exception mask asks for it.  The statement ends after its last operand  *)
(* (std::endl, whose flush leaves nothing buffered) and yields no value.   *)
Insert(t) ==
    /\ pc[t] = "printing"
    /\ LET bytes == InsertedBytes(Head(pend[t]))
           fails == ~badbit /\ ~writable
           throws == fails /\ "badbit" \in CoutExceptions
           rest == IF throws THEN <<>> ELSE Tail(pend[t])
       IN
       /\ IF ~badbit /\ writable
          THEN /\ stdout' = stdout \o bytes
               /\ owner' = owner \o [i \in 1..Len(bytes) |-> cur[t].id]
               /\ written' = [written EXCEPT ![t] = @ \o bytes]
          ELSE UNCHANGED <<stdout, owner, written>>
       /\ badbit' = (badbit \/ fails)
       /\ pend' = [pend EXCEPT ![t] = rest]
       /\ pc' = [pc EXCEPT ![t] = IF rest = <<>> THEN "done" ELSE "printing"]
       /\ outcome' = [outcome EXCEPT ![t] =
                         IF throws THEN "exception"
                         ELSE IF rest = <<>> THEN "normal" ELSE "running"]
    /\ UNCHANGED <<threads, limit, cur, nprints, last, writable>>

(* MOD(code), or RST, evaluated as an expression.                          *)
EvalEscape(t, n) ==
    /\ Between(t)
    /\ last' = [kind |-> "escape", name |-> n, attrs |-> <<>>, args |-> <<>>,
                val |-> ExprValue(IF n = "RST" THEN RST ELSE MOD(CodeMacro(n)))]
    /\ UNCHANGED <<threads, limit, pc, cur, pend, written, outcome,
                   stdout, owner, nprints, writable, badbit>>

(* A style macro that also inserts its result into std::cout.              *)
Compose_Printing(t, n, x) ==
    /\ Between(t)
    /\ last' = [kind |-> "styled", name |-> n, attrs |-> <<>>, args |-> x,
                val |-> ExprValue(StyleMacro(n, VA_ARGS(x)))]
    /\ stdout' = stdout \o last'.val
    /\ owner' = owner \o [i \in 1..Len(last'.val) |-> 0]
    /\ UNCHANGED <<threads, limit, pc, cur, pend, written, outcome,
                   nprints, writable, badbit>>

(* One of the eight style macros evaluated as an expression.               *)
Compose(t, n, x) ==
    /\ Between(t)
    /\ last' = [kind |-> "styled", name |-> n, attrs |-> <<>>, args |-> x,
                val |-> ExprValue(StyleMacro(n, VA_ARGS(x)))]
    /\ UNCHANGED <<threads, limit, pc, cur, pend, written, outcome,
                   stdout, owner, nprints, writable, badbit>>

(* MOD(a1) ... MOD(an) x RST written out by hand.                          *)
ComposeSeq(t, as, x) ==
    /\ Between(t)
    /\ last' = [kind |-> "seq", name |-> "", attrs |-> as, args |-> x,
                val |-> ExprValue(ModSeq(as) \o VA_ARGS(x) \o RST)]
    /\ UNCHANGED <<threads, limit, pc, cur, pend, written, outcome,
                   stdout, owner, nprints, writable, badbit>>

(* The environment: standard output stops accepting bytes (a full device,  *)
(* a closed descriptor).                                                   *)
StreamBreaks ==
    /\ writable
    /\ writable' = FALSE
    /\ UNCHANGED <<threads, limit, pc, cur, pend, written, outcome,
                   stdout, owner, nprints, last, badbit>>

Calls == \E t \in threads, n \in PrintNames, x \in PrintArgs : Call(t, n, x)

Inserts == \E t \in threads : Insert(t)

EvalEscapes == \E t \in threads, n \in CodeNames \cup {"RST"} : EvalEscape(t, n)

Composes == \E t \in threads, n \in StyleNames, x \in ComposeArgs : Compose(t, n, x)

ComposeSeqs == \E t \in threads, as \in AttrSeqs, x \in ComposeArgs : ComposeSeq(t, as, x)

Next == Calls \/ Inserts

EvalNext == Calls \/ Inserts \/ EvalEscapes \/ Composes \/ ComposeSeqs

FailNext == Calls \/ Inserts \/ StreamBreaks

(* One thread printing, standard output writable: the header's stated use. *)
Spec == Init /\ [][Next]_vars

(* One thread that prints and evaluates style expressions.                 *)
EvalSpec == EvalInit /\ [][EvalNext]_vars

(* Two threads printing at once.                                           *)
ConcSpec == ConcInit /\ [][Next]_vars

(* One thread printing, and standard output may stop accepting bytes.      *)
FailSpec == Init /\ [][FailNext]_vars

---------------------------------------------------------------------------
(* The specification's reference functions: escape, styled, and the fixed  *)
(* attribute sequence of each shorthand.  Attributes are called by the     *)
(* header's names: BOLD is Bold, FGRED is Foreground Red, RST is Reset.    *)

Code(a) ==
    CASE a = "BOLD"      -> 1
      [] a = "UNDRL"     -> 4
      [] a = "FGRED"     -> 31
      [] a = "FGGREEN"   -> 32
      [] a = "FGYELLOW"  -> 33
      [] a = "FGBLUE"    -> 34
      [] a = "FGDEFAULT" -> 39
      [] a = "BGRED"     -> 41
      [] a = "BGGREEN"   -> 42
      [] a = "BGYELLOW"  -> 43
      [] a = "BGBLUE"    -> 44
      [] a = "BGDEFAULT" -> 49
      [] a = "RST"       -> 0

DecimalBytes(n) ==
    IF n < 10 THEN <<48 + n>> ELSE <<48 + (n \div 10), 48 + (n % 10)>>

Escape(a) == <<27, 91>> \o DecimalBytes(Code(a)) \o <<109>>

RECURSIVE EscapeAll(_)
EscapeAll(as) ==
    IF as = <<>> THEN <<>> ELSE Escape(Head(as)) \o EscapeAll(Tail(as))

StyledRef(as, payload) == EscapeAll(as) \o payload \o Escape("RST")

StyleAttrs(n) ==
    CASE n = "B_MOD_RED"    -> <<"BOLD", "FGRED">>
      [] n = "B_MOD_GREEN"  -> <<"BOLD", "FGGREEN">>
      [] n = "B_MOD_YELLOW" -> <<"BOLD", "FGYELLOW">>
      [] n = "B_MOD_BLUE"   -> <<"BOLD", "FGBLUE">>
      [] n = "MOD_RED"      -> <<"FGRED">>
      [] n = "MOD_GREEN"    -> <<"FGGREEN">>
      [] n = "MOD_YELLOW"   -> <<"FGYELLOW">>
      [] n = "MOD_BLUE"     -> <<"FGBLUE">>

PrintAttrs(n) ==
    CASE n = "PRINT_BRED"   -> <<"BOLD", "FGRED">>
      [] n = "PRINT_BGREEN" -> <<"BOLD", "FGGREEN">>
      [] n = "PRINT_BBLUE"  -> <<"BOLD", "FGBLUE">>
      [] n = "PRINT_RED"    -> <<"FGRED">>
      [] n = "PRINT_GREEN"  -> <<"FGGREEN">>
      [] n = "PRINT_BLUE"   -> <<"FGBLUE">>

(* The name a print shorthand for bold/unbolded b and colour c goes by.    *)
ShorthandFor(b, c) ==
    CASE c = "RED"    -> IF b THEN "PRINT_BRED" ELSE "PRINT_RED"
      [] c = "GREEN"  -> IF b THEN "PRINT_BGREEN" ELSE "PRINT_GREEN"
      [] c = "YELLOW" -> IF b THEN "PRINT_BYELLOW" ELSE "PRINT_YELLOW"
      [] c = "BLUE"   -> IF b THEN "PRINT_BBLUE" ELSE "PRINT_BLUE"

(* The payload an argument denotes: its fragments' characters in order, an *)
(* embedded styled text counting as the string it is.                      *)
PartPayload(p) ==
    IF p.m = "" THEN Lit(p.s).s ELSE StyledRef(StyleAttrs(p.m), Lit(p.s).s)

RECURSIVE FragPayload(_)
FragPayload(f) ==
    IF f = <<>> THEN <<>> ELSE PartPayload(Head(f)) \o FragPayload(Tail(f))

RECURSIVE Payload(_)
Payload(frags) ==
    IF frags = <<>> THEN <<>> ELSE FragPayload(Head(frags)) \o Payload(Tail(frags))

RECURSIVE JoinedChars(_)
JoinedChars(f) ==
    IF f = <<>> THEN <<>> ELSE Head(f).s \o JoinedChars(Tail(f))

RECURSIVE AllChars(_)
AllChars(frags) ==
    IF frags = <<>> THEN <<>> ELSE JoinedChars(Head(frags)) \o AllChars(Tail(frags))

(* The single string that is the fragments concatenated, as an argument.   *)
Joined(frags) == << <<Plain(AllChars(frags))>> >>

RECURSIVE Flatten(_)
Flatten(ops) ==
    IF ops = <<>> THEN <<>> ELSE InsertedBytes(Head(ops)) \o Flatten(Tail(ops))

(* Everything the statement n(x) inserts, when every insertion succeeds.   *)
WrittenBy(n, x) == Flatten(Insertions(PrintMacro(n, VA_ARGS(x))))

IsSuffix(w, out) ==
    Len(w) <= Len(out) /\ SubSeq(out, Len(out) - Len(w) + 1, Len(out)) = w

Completed(t) == pc[t] = "done"

---------------------------------------------------------------------------
(* C1: for every style attribute a, escape(a) is the byte ESC (0x1B), then *)
(* '[', then code(a) in decimal, then 'm', code being the fixed table      *)
(* (Bold 1, Underline 4, foreground 31/32/33/34/39, background             *)
(* 41/42/43/44/49, Reset 0).                                               *)
C1_EscapeBytes ==
    last.kind = "escape" =>
        /\ last.val = Escape(last.name)
        /\ last.val[1] = 1 * 16 + 11

C1_Witness ==
    /\ last.kind = "escape"
    /\ last.name = "FGYELLOW"
    /\ last.val = <<27, 91, 51, 51, 109>>

(* C2: styled(attributes, payload) is escape(a) for each attribute in the  *)
(* given order, then the payload unchanged, then exactly one escape(Reset);*)
(* the empty attribute sequence included; in the bold specializations the  *)
(* Bold escape comes before the colour escape.                             *)
C2_StyledComposition ==
    /\ last.kind = "styled" =>
           last.val = StyledRef(StyleAttrs(last.name), Payload(last.args))
    /\ last.kind = "seq" =>
           last.val = StyledRef(last.attrs, Payload(last.args))

C2_Witness ==
    /\ last.kind = "styled"
    /\ last.name = "B_MOD_RED"
    /\ last.args = ArgOne
    /\ last.val = <<27, 91, 49, 109, 27, 91, 51, 49, 109, 49, 50, 51, 27, 91, 48, 109>>

(* C3 as stated: there are eight print shorthands, one for each            *)
(* combination of bold/unbolded with Red, Green, Yellow and Blue, and each *)
(* writes exactly styled(its attributes, payload) and a line terminator.   *)
C3_EightShorthands ==
    /\ \A b \in BOOLEAN, c \in {"RED", "GREEN", "YELLOW", "BLUE"} :
           ShorthandFor(b, c) \in ColourPrintNames
    /\ \A t \in threads :
           Completed(t) /\ cur[t].macro \in ColourPrintNames =>
               written[t] = StyledRef(PrintAttrs(cur[t].macro), Payload(cur[t].args))
                            \o <<10>>

(* C3 amended: there are six colour print shorthands, one for each         *)
(* combination of bold/unbolded with Red, Green and Blue (none for         *)
(* Yellow), and each, for every payload, writes to standard output exactly *)
(* styled(its attributes, payload) followed by one line terminator.        *)
C3_SixShorthands ==
    /\ ColourPrintNames =
           {ShorthandFor(b, c) : b \in BOOLEAN, c \in {"RED", "GREEN", "BLUE"}}
    /\ Cardinality(ColourPrintNames) = 6
    /\ \A t \in threads :
           Completed(t) /\ cur[t].macro \in ColourPrintNames =>
               /\ written[t] = StyledRef(PrintAttrs(cur[t].macro), Payload(cur[t].args))
                               \o <<10>>
               /\ IsSuffix(written[t], stdout)

C3_Witness ==
    /\ Completed(1)
    /\ cur[1].macro = "PRINT_BRED"
    /\ cur[1].args = ArgOne
    /\ written[1] = <<27, 91, 49, 109, 27, 91, 51, 49, 109, 49, 50, 51,
                      27, 91, 48, 109, 10>>
    /\ IsSuffix(written[1], stdout)

(* C4: the plain print shorthand writes exactly the payload bytes and one  *)
(* line terminator, with no escape sequence (no style, no Reset) added.    *)
C4_PlainPrint ==
    \A t \in threads :
        Completed(t) /\ cur[t].macro = "PRINT" =>
            /\ written[t] = Payload(cur[t].args) \o <<10>>
            /\ IsSuffix(written[t], stdout)
            /\ \A i \in 1..Len(written[t]) : written[t][i] # 27
            /\ Terminal(written[t]).codes = <<>>

C4_Witness ==
    /\ Completed(1)
    /\ cur[1].macro = "PRINT"
    /\ cur[1].args = ArgChain
    /\ written[1] = <<55, 56, 57, 50, 53, 56, 10>>

(* C5: a colour print shorthand invoked with chained fragments writes the  *)
(* same bytes as the shorthand invoked once with the fragments             *)
(* concatenated into one string: the style escapes come before the first   *)
(* fragment and the Reset after the last.                                  *)
C5_ChainEqualsConcatenation ==
    \A t \in threads :
        Completed(t) /\ cur[t].macro \in ColourPrintNames =>
            /\ written[t] = WrittenBy(cur[t].macro, Joined(cur[t].args))
            /\ written[t] = EscapeAll(PrintAttrs(cur[t].macro))
                            \o Lit(AllChars(cur[t].args)).s
                            \o Escape("RST") \o <<10>>

C5_Witness ==
    /\ Completed(1)
    /\ cur[1].macro = "PRINT_BGREEN"
    /\ Len(cur[1].args) = 2
    /\ written[1] = <<27, 91, 49, 109, 27, 91, 51, 50, 109, 55, 56, 57, 50, 53, 56,
                      27, 91, 48, 109, 10>>

(* C6: when several threads print concurrently the writers are serialized:*)
(* in every interleaving the bytes of one call (style escapes, payload,    *)
(* Reset, line terminator) are contiguous on standard output, never mixed  *)
(* with the bytes of another thread's call.                                *)
C6_CallsContiguous ==
    \A c \in 1..nprints :
        \A i, j \in 1..Len(owner) :
            (i < j /\ owner[i] = c /\ owner[j] = c) =>
                \A h \in i..j : owner[h] = c

(* C7: when standard output is unwritable at the time of a print, the      *)
(* failure reaches the caller as an error outcome: no print that dropped   *)
(* bytes ends looking like a success.                                      *)
C7_FailureSurfaced ==
    \A t \in threads :
        Completed(t) /\ written[t] # WrittenBy(cur[t].macro, cur[t].args) =>
            outcome[t] = "exception"

SameExpr(e, f) ==
    /\ e.kind # "none"
    /\ e.kind = f.kind
    /\ e.name = f.name
    /\ e.attrs = f.attrs
    /\ e.args = f.args

(* C8: styled is pure: an evaluation leaves standard output (and the       *)
(* stream's state) as it was, and an expression evaluated again, whatever  *)
(* was printed in between, has the same bytes as before.                   *)
C8_StyledPure ==
    [][/\ last' # last =>
              /\ stdout' = stdout
              /\ owner' = owner
              /\ badbit' = badbit
       /\ SameExpr(last, last') => last'.val = last.val]_vars

C8_Witness ==
    /\ last.kind = "styled"
    /\ last.name = "MOD_RED"
    /\ Completed(1)
    /\ cur[1].macro = "PRINT_BLUE"
    /\ stdout = written[1]
    /\ Len(stdout) > 0

IsNewline(cell) == cell.ch = 10

(* C9: after any sequence of completed prints whose payloads hold no       *)
(* escape sequence the terminal is in its default rendering: a colour      *)
(* print's last escape is the Reset, written before the line terminator,   *)
(* so no style is active when a line ends or when the next print (a plain  *)
(* one included) begins.                                                   *)
C9_DefaultRenderingBetweenPrints ==
    LET term == Terminal(stdout) IN
    /\ (\A t \in threads : Between(t)) => term.attrs = DefaultAttrs
    /\ \A i \in 1..Len(term.cells) :
           IsNewline(term.cells[i]) => term.cells[i].attrs = DefaultAttrs
    /\ \A t \in threads :
           /\ pc[t] = "printing" /\ written[t] = <<>> => term.attrs = DefaultAttrs
           /\ Completed(t) /\ cur[t].macro \in ColourPrintNames =>
                  LET mine == Terminal(written[t]) IN
                  /\ mine.codes[Len(mine.codes)] = <<48>>
                  /\ IsSuffix(Escape("RST") \o <<10>>, written[t])
           /\ Completed(t) /\ cur[t].macro = "PRINT" =>
                  LET mine == Terminal(stdout).cells IN
                  \A i \in (Len(mine) - Len(written[t]) + 1)..Len(mine) :
                      mine[i].attrs = DefaultAttrs

C9_Witness ==
    /\ nprints = 2
    /\ Completed(1)
    /\ cur[1].macro = "PRINT"
    /\ Len(Terminal(stdout).codes) = 3
    /\ Terminal(stdout).codes[1] = <<49>>
    /\ Terminal(stdout).attrs = DefaultAttrs

HasStyledPart(f) == \E i \in 1..Len(f) : f[i].m # ""

StyledPartAt(f) == CHOOSE i \in 1..Len(f) : f[i].m # ""

RECURSIVE CharCount(_, _, _)
CharCount(f, from, to) ==
    IF from > to THEN 0 ELSE Len(f[from].s) + CharCount(f, from + 1, to)

ResetCount(codes) == Cardinality({i \in 1..Len(codes) : codes[i] = <<48>>})

(* What the terminal shows after the escapes of the attributes as.         *)
AttrsAfter(as) == Terminal(EscapeAll(as)).attrs

(* C10: styling does not nest: when a styled text is embedded in the       *)
(* payload of another, the inner segment's Reset clears every attribute,   *)
(* so the outer payload after the inner segment is drawn with the default  *)
(* attributes and not with the outer style, and the composed string holds  *)
(* two Reset escapes.                                                      *)
C10_StylingDoesNotNest ==
    (last.kind = "styled" /\ HasStyledPart(last.args[1])) =>
        LET f == last.args[1]
            k == StyledPartAt(f)
            term == Terminal(last.val)
            nPre == CharCount(f, 1, k - 1)
            nIn == Len(f[k].s)
            nPost == CharCount(f, k + 1, Len(f))
            outer == AttrsAfter(StyleAttrs(last.name))
        IN
        /\ Len(term.cells) = nPre + nIn + nPost
        /\ ResetCount(term.codes) = 2
        /\ outer # DefaultAttrs
        /\ \A i \in 1..nPre : term.cells[i].attrs = outer
        /\ \A i \in (nPre + nIn + 1)..(nPre + nIn + nPost) :
               /\ term.cells[i].attrs = DefaultAttrs
               /\ term.cells[i].attrs # outer

C10_Witness ==
    /\ last.kind = "styled"
    /\ last.name = "B_MOD_RED"
    /\ last.args = ArgNested
    /\ Terminal(last.val).cells[1] = [ch |-> 52, attrs |-> [DefaultAttrs EXCEPT !.bold = TRUE, !.fg = "FGRED"]]
    /\ Terminal(last.val).cells[2].attrs = [DefaultAttrs EXCEPT !.bold = TRUE, !.fg = "FGBLUE"]
    /\ Terminal(last.val).cells[3] = [ch |-> 54, attrs |-> DefaultAttrs]

====
